---------------------------- MODULE Spec2Model ----------------------------
(***************************************************************************)
(* A model of src/fc/swp.py: the sliding-window sender (SWPSender), the    *)
(* receiver (SWPReceiver) and the packet codec (SWPPacket), over a lossy,  *)
(* reordering datagram transport (llp.LLPEndpoint, not part of src/).      *)
(*                                                                         *)
(* Threads of the program and the atomic steps they are cut into:          *)
(*   application thread   SWPSender._send, lines 75-89 then lines 92-94    *)
(*   application thread   SWPReceiver.recv (a blocking queue get)          *)
(*   sender recv thread   one iteration of SWPSender._recv per step        *)
(*   receiver recv thread one iteration of SWPReceiver._recv per step      *)
(*   timer thread of s    Timer expiry + lines 99-104, line 107, 108-110   *)
(* Steps are merged only where no other thread can observe the difference: *)
(* between lines 75 and 89 the other threads only remove entries of the    *)
(* table, and no ACK of the new sequence number exists before line 89;     *)
(* the loop of lines 132-136 works on the key list of line 132, the other  *)
(* threads add no key it covers, and a callback that runs between two of   *)
(* its rounds finds what it finds before or after the whole loop.          *)
(*                                                                         *)
(* Specifications:                                                         *)
(*   Spec       the protocol, one application context, MaxFires expiries   *)
(*   FaultSpec  the same with recv() results that are no packet of the peer*)
(*   LiveSpec   the end of a transfer with fair threads, timers, transport *)
(*   RecvSpec   the receiver's loop statement by statement, any arrivals   *)
(*   ConcSpec   _send called from two contexts, statement by statement     *)
(*   InitSpec   the two constructors, statement by statement               *)
(*   CodecSpec  to_bytes and from_bytes alone                              *)
(***************************************************************************)
EXTENDS Integers, Sequences, FiniteSets, TLC

VARIABLES
    next_seq_num,      \* SWPSender._next_seq_num
    send_buffer,       \* SWPSender._send_buffer : seq_num -> packet
    timers,            \* SWPSender._timers : seq_num -> state of the Timer object
    live,              \* seq_num -> number of started, uncancelled, unfired Timers
    cb,                \* seq_num -> position of the running _retransmit callback
    a_pc,              \* application thread inside SWPSender.send
    a_i,               \* index of the chunk send() is submitting
    a_seq,             \* local seq_num of _send between line 89 and line 92
    transmitted,       \* seq_num -> data of the packet _send handed to llp at line 89
    s_thread,          \* sender recv thread: "running" or the exception that ended it
    r_thread,          \* receiver recv thread: "running" or the exception that ended it
    expected_seq_num,  \* SWPReceiver._expected_seq_num
    buffer,            \* SWPReceiver._buffer : seq_num -> data
    ready_data,        \* SWPReceiver._ready_data (queue.Queue)
    got,               \* what the application's recv() calls have returned
    dnet,              \* datagrams in flight to the receiver
    anet,              \* datagrams in flight to the sender
    fires,             \* Timer expiries so far
    last,              \* the datagram handled by the step just taken, if it was a receive loop's
    c_pkt, c_raw, c_dec, \* codec: a packet, its encoding, the decoding of that
    r_pc,              \* receiver recv thread, statement by statement: its position
    r_pkt,             \* the packet that thread is handling (local packet)
    accepted,          \* seq_num of the segments that passed line 172, in order
    acks,              \* seq_num of the ACKs handed to llp at line 180, in order
    t_pc,              \* context -> position of its SWPSender._send call
    t_seq,             \* context -> local seq_num of its _send call
    t_tmp,             \* context -> the value line 80 has loaded
    t_calls,           \* context -> _send calls it has made
    assigned,          \* <<seq_num, data>>: the numbers line 79 gave to the data, in order
    s_ctor,            \* position of SWPSender.__init__
    r_ctor             \* position of SWPReceiver.__init__

avars == <<next_seq_num, a_pc, a_i, a_seq, transmitted>>
tvars == <<send_buffer, timers, live, s_thread>>
svars == <<avars, tvars, cb, fires>>
rvars == <<r_thread, expected_seq_num, buffer, ready_data, got>>
nvars == <<dnet, anet>>
cvars == <<c_pkt, c_raw, c_dec>>
pvars == <<r_pc, r_pkt, accepted, acks>>
kvars == <<t_pc, t_seq, t_tmp, t_calls, assigned>>
ivars == <<s_ctor, r_ctor>>
xvars == <<pvars, kvars, ivars>>
vars == <<svars, rvars, nvars, last, cvars, xvars>>

---------------------------------------------------------------------------
\* Bounds of the model.
MaxChunks == 6          \* chunks the application submits to send()
MaxFires == 1           \* Timer expiries in one run
NetCap == 1             \* datagrams in flight in one direction
MaxPayloadLen == 2      \* longest payload the codec is tried on
MaxArrivals == 4        \* segments the stepwise receiver accepts in one run
MaxCalls == 2           \* _send calls of one application context
LiveChunks == 2         \* chunks still to submit where the fair runs start

\* Program constants.
DATA == 68              \* SWPType.DATA = ord('D')
ACK == 65               \* SWPType.ACK = ord('A')
_HEADER_SIZE == 5       \* struct.calcsize('!BI')
_SEND_WINDOW_SIZE == 5
_RECV_WINDOW_SIZE == 5

\* llp's "no datagram" result: a value no byte string equals.
None == <<-1>>
NoLast == [who |-> "none", raw |-> None]
NoPacket == [err |-> "none", type |-> 0, seq_num |-> 0, data |-> <<>>]

Seqs == 0..(MaxChunks - 1)
Chunks == 0..(MaxChunks - 1)
\* application contexts that call send()
Contexts == {1, 2}

\* The payload of chunk i: one byte, distinct per chunk.
ChunkData(i) == <<i + 1>>

---------------------------------------------------------------------------
\* SWPPacket

\* PackU32 with the byte order of '<I': least significant byte first
PackU32_le(n) ==
    << n % 256, (n \div 256) % 256, (n \div 65536) % 256, (n \div 16777216) % 256 >>

\* struct.pack('!I', n): four bytes, most significant first.
PackU32(n) ==
    << (n \div 16777216) % 256, (n \div 65536) % 256, (n \div 256) % 256, n % 256 >>

UnpackU32(b) == b[1] * 16777216 + b[2] * 65536 + b[3] * 256 + b[4]

SWPPacket(type, seq_num, data) ==
    [err |-> "ok", type |-> type, seq_num |-> seq_num, data |-> data]

to_bytes(p) == <<p.type>> \o PackU32(p.seq_num) \o p.data

\* from_bytes: the packet, or the exception raised (err).
from_bytes(raw) ==
    IF raw = None THEN [NoPacket EXCEPT !.err = "TypeError"]
    ELSE IF Len(raw) < _HEADER_SIZE THEN [NoPacket EXCEPT !.err = "struct.error"]
    ELSE IF raw[1] \notin {DATA, ACK} THEN [NoPacket EXCEPT !.err = "ValueError"]
    ELSE SWPPacket(raw[1], UnpackU32(SubSeq(raw, 2, _HEADER_SIZE)),
                   SubSeq(raw, _HEADER_SIZE + 1, Len(raw)))

---------------------------------------------------------------------------
\* Python dicts as functions.
EmptyMap == [x \in {} |-> 0]
\* a dict without the key k
Del(f, k) == [x \in DOMAIN f \ {k} |-> f[x]]
\* a dict with f[k] = v, the key added when missing
Put(f, k, v) == [x \in DOMAIN f \cup {k} |-> IF x = k THEN v ELSE f[x]]

Min(S) == CHOOSE x \in S : \A y \in S : x <= y

\* list(d.keys()): keys in insertion order, which is increasing seq_num
RECURSIVE KeyList(_)
KeyList(S) == IF S = {} THEN <<>> ELSE <<Min(S)>> \o KeyList(S \ {Min(S)})

\* llp.LLPEndpoint.send(raw) on the datagrams in flight: best effort, the
\* datagram is discarded when the transport holds NetCap datagrams already
llp_send(net, raw) == IF Cardinality(net \cup {raw}) > NetCap THEN net ELSE net \cup {raw}

ProtocolInit ==
    /\ next_seq_num = 0
    /\ send_buffer = EmptyMap
    /\ timers = EmptyMap
    /\ live = [s \in Seqs |-> 0]
    /\ cb = [s \in Seqs |-> "idle"]
    /\ a_pc = "l75"
    /\ a_i = 0
    /\ a_seq = 0
    /\ transmitted = EmptyMap
    /\ s_thread = "running"
    /\ r_thread = "running"
    /\ expected_seq_num = 0
    /\ buffer = EmptyMap
    /\ ready_data = <<>>
    /\ got = <<>>
    /\ fires = 0
    /\ dnet = {}
    /\ anet = {}
    /\ last = NoLast
    /\ r_pc = "l164"
    /\ r_pkt = NoPacket
    /\ accepted = <<>>
    /\ acks = <<>>
    /\ t_pc = [c \in Contexts |-> "idle"]
    /\ t_seq = [c \in Contexts |-> 0]
    /\ t_tmp = [c \in Contexts |-> 0]
    /\ t_calls = [c \in Contexts |-> 0]
    /\ assigned = <<>>

\* both constructors have returned
Constructed == s_ctor = "done" /\ r_ctor = "done"

Init ==
    /\ ProtocolInit
    /\ Constructed
    /\ c_pkt = NoPacket
    /\ c_raw = None
    /\ c_dec = NoPacket

---------------------------------------------------------------------------
\* SWPSender._send

\* WindowFull with > for >=
WindowFull_gt(buf) == Cardinality(DOMAIN buf) > _SEND_WINDOW_SIZE

\* line 75
WindowFull(buf) == Cardinality(DOMAIN buf) >= _SEND_WINDOW_SIZE

\* lines 75-76: the window is full, _send returns and the chunk is gone
SWPSender_send_full ==
    /\ a_pc = "l75" /\ a_i < MaxChunks
    /\ WindowFull(send_buffer)
    /\ a_i' = a_i + 1
    /\ UNCHANGED <<next_seq_num, a_pc, a_seq, transmitted, tvars, cb, fires>>
    /\ UNCHANGED <<rvars, nvars, cvars, xvars>>
    /\ last' = NoLast

\* lines 75-89: number the chunk, enter it in the table, transmit it
SWPSender_send_l75 ==
    /\ a_pc = "l75" /\ a_i < MaxChunks
    /\ ~WindowFull(send_buffer)
    /\ LET seq_num == next_seq_num
           packet == SWPPacket(DATA, seq_num, ChunkData(a_i))
       IN /\ next_seq_num' = next_seq_num + 1
          /\ send_buffer' = Put(send_buffer, seq_num, packet)
          /\ dnet' = llp_send(dnet, to_bytes(packet))
          /\ transmitted' = Put(transmitted, seq_num, packet.data)
          /\ a_seq' = seq_num
    /\ a_pc' = "l92"
    /\ UNCHANGED <<timers, live, s_thread, cb, fires, a_i, anet>>
    /\ UNCHANGED <<rvars, cvars, xvars>>
    /\ last' = NoLast

\* lines 92-94: create, start and register the retransmission timer
SWPSender_send_l92 ==
    /\ a_pc = "l92"
    /\ live' = [live EXCEPT ![a_seq] = @ + 1]
    /\ timers' = Put(timers, a_seq, "armed")
    /\ a_pc' = "l75"
    /\ a_i' = a_i + 1
    /\ UNCHANGED <<next_seq_num, a_seq, transmitted, send_buffer, s_thread, cb, fires>>
    /\ UNCHANGED <<rvars, nvars, cvars, xvars>>
    /\ last' = NoLast

---------------------------------------------------------------------------
\* SWPSender._retransmit, run by the Timer of seq_num s when it expires.
\* A Timer expires _TIMEOUT (1 s) after start(): never while the few statements
\* that started it are still running, so it waits for cb[s] = "idle".

\* expiry, then lines 99-104: resend the packet if s is still in the table
SWPSender_retransmit_expire(s) ==
    /\ live[s] > 0 /\ cb[s] = "idle"
    /\ ~(a_pc = "l92" /\ a_seq = s)
    /\ live' = [live EXCEPT ![s] = @ - 1]
    /\ timers' = IF s \in DOMAIN timers /\ timers[s] = "armed"
                 THEN [timers EXCEPT ![s] = "fired"] ELSE timers
    /\ IF s \in DOMAIN send_buffer
       THEN /\ dnet' = llp_send(dnet, to_bytes(send_buffer[s]))
            /\ cb' = [cb EXCEPT ![s] = "l107"]
       ELSE UNCHANGED <<dnet, cb>>
    /\ UNCHANGED <<avars, send_buffer, s_thread, anet>>
    /\ UNCHANGED <<rvars, cvars, xvars>>
    /\ last' = NoLast

\* the same, one of at most MaxFires expiries of a run
SWPSender_retransmit_l99(s) ==
    /\ fires < MaxFires /\ fires' = fires + 1
    /\ SWPSender_retransmit_expire(s)

\* the same, in a run with any number of expiries
SWPSender_retransmit_l99_again(s) ==
    /\ UNCHANGED fires
    /\ SWPSender_retransmit_expire(s)

\* line 107: self._timers[seq_num].cancel(); a missing key ends the callback
SWPSender_retransmit_l107(s) ==
    /\ cb[s] = "l107"
    /\ IF s \in DOMAIN timers
       THEN /\ cb' = [cb EXCEPT ![s] = "l108"]
            /\ live' = IF timers[s] = "armed" THEN [live EXCEPT ![s] = @ - 1] ELSE live
            /\ timers' = IF timers[s] = "armed"
                         THEN [timers EXCEPT ![s] = "cancelled"] ELSE timers
       ELSE /\ cb' = [cb EXCEPT ![s] = "KeyError"]
            /\ UNCHANGED <<live, timers>>
    /\ UNCHANGED <<avars, send_buffer, s_thread, fires>>
    /\ UNCHANGED <<rvars, nvars, cvars, xvars>>
    /\ last' = NoLast

\* lines 108-110 without new_timer.start()
SWPSender_retransmit_l108_nostart(s) ==
    /\ cb[s] = "l108"
    /\ timers' = Put(timers, s, "unstarted")
    /\ cb' = [cb EXCEPT ![s] = "idle"]
    /\ UNCHANGED <<avars, send_buffer, s_thread, fires, live>>
    /\ UNCHANGED <<rvars, nvars, cvars, xvars>>
    /\ last' = NoLast

\* lines 108-110: create, start and register a new Timer
SWPSender_retransmit_l108(s) ==
    /\ cb[s] = "l108"
    /\ live' = [live EXCEPT ![s] = @ + 1]
    /\ timers' = Put(timers, s, "armed")
    /\ cb' = [cb EXCEPT ![s] = "idle"]
    /\ UNCHANGED <<avars, send_buffer, s_thread, fires>>
    /\ UNCHANGED <<rvars, nvars, cvars, xvars>>
    /\ last' = NoLast

---------------------------------------------------------------------------
\* SWPSender._recv

\* line 133
Acked(seq_num, ack_seq_num) == seq_num <= ack_seq_num

\* lines 132-136 over the key list taken at line 132. st is the sender state the
\* loop works on; a missing self._timers[seq_num] (line 134) ends the thread.
RECURSIVE AckLoop(_, _, _)
AckLoop(keys, ack_seq_num, st) ==
    IF keys = <<>> \/ st.thread # "running" THEN st
    ELSE LET seq_num == Head(keys) IN
         IF ~Acked(seq_num, ack_seq_num) THEN AckLoop(Tail(keys), ack_seq_num, st)
         ELSE IF seq_num \notin DOMAIN st.timers
              THEN [st EXCEPT !.thread = "KeyError"]
              ELSE AckLoop(Tail(keys), ack_seq_num,
                     [st EXCEPT
                        !.live = IF st.timers[seq_num] = "armed"
                                 THEN [@ EXCEPT ![seq_num] = @ - 1] ELSE @,
                        !.timers = Del(@, seq_num),
                        !.send_buffer = Del(@, seq_num)])

\* one iteration of the loop of lines 115-136 on the transport's result raw
SWPSender_recv_iter(raw) ==
    LET packet == from_bytes(raw)
        st0 == [send_buffer |-> send_buffer, timers |-> timers, live |-> live,
                thread |-> s_thread]
        st == IF raw = None THEN st0
              ELSE IF packet.err # "ok" THEN [st0 EXCEPT !.thread = packet.err]
              ELSE IF packet.type = ACK
                   THEN AckLoop(KeyList(DOMAIN send_buffer), packet.seq_num, st0)
                   ELSE st0
    IN /\ send_buffer' = st.send_buffer
       /\ timers' = st.timers
       /\ live' = st.live
       /\ s_thread' = st.thread
       /\ last' = [who |-> "sender", raw |-> raw]

\* a datagram of the receiver arrives
SWPSender_recv ==
    /\ s_thread = "running"
    /\ \E raw \in anet :
        /\ SWPSender_recv_iter(raw)
        /\ anet' = anet \ {raw}
    /\ UNCHANGED <<avars, cb, fires, dnet>>
    /\ UNCHANGED <<rvars, cvars, xvars>>

\* datagrams that are no SWP packet: too short, or an unknown type byte
Malformed == { <<>>, <<DATA, 0, 0>>, <<66, 0, 0, 0, 0>> }

\* llp's recv() returns None, or hands over a datagram that is no ACK
SWPSender_recv_other ==
    /\ s_thread = "running"
    /\ \E raw \in {None} \cup Malformed \cup {to_bytes(SWPPacket(DATA, 0, <<>>))} :
        SWPSender_recv_iter(raw)
    /\ UNCHANGED <<avars, cb, fires>>
    /\ UNCHANGED <<rvars, nvars, cvars, xvars>>

---------------------------------------------------------------------------
\* SWPReceiver

\* InWindow without the lower bound of line 172
InWindow_noLower(seq_num, expected) == seq_num < expected + _RECV_WINDOW_SIZE

\* InWindow with <= for the < of line 172
InWindow_le(seq_num, expected) ==
    seq_num >= expected /\ seq_num <= expected + _RECV_WINDOW_SIZE

\* line 172
InWindow(seq_num, expected) ==
    seq_num >= expected /\ seq_num < expected + _RECV_WINDOW_SIZE

\* _send_ack, lines 178-181: the datagrams in flight to the sender afterwards
SWPReceiver_send_ack(net, seq_num) ==
    llp_send(net, to_bytes(SWPPacket(ACK, seq_num, <<>>)))

\* _process_buffer, lines 183-187, on st = [buffer, expected, ready, ...]
RECURSIVE SWPReceiver_process_buffer(_)
SWPReceiver_process_buffer(st) ==
    IF st.expected \in DOMAIN st.buffer
    THEN SWPReceiver_process_buffer(
            [st EXCEPT !.buffer = Del(@, st.expected),
                       !.ready = Append(@, st.buffer[st.expected]),
                       !.expected = @ + 1])
    ELSE st

\* lines 173-175 delivering the packet as it arrives, not in order
SWPReceiver_accept_eager(packet, st) ==
    [st EXCEPT !.ready = Append(@, packet.data),
               !.expected = @ + 1,
               !.net = SWPReceiver_send_ack(@, packet.seq_num)]

\* lines 173-175 for an accepted packet
SWPReceiver_accept(packet, st) ==
    SWPReceiver_process_buffer(
        [st EXCEPT !.buffer = Put(@, packet.seq_num, packet.data),
                   !.net = SWPReceiver_send_ack(@, packet.seq_num)])

\* one iteration of the loop of lines 162-175 on the transport's result raw
SWPReceiver_recv_iter(raw) ==
    LET packet == from_bytes(raw)
        st0 == [buffer |-> buffer, expected |-> expected_seq_num,
                ready |-> ready_data, net |-> anet, thread |-> r_thread]
        st == IF packet.err # "ok" THEN [st0 EXCEPT !.thread = packet.err]
              ELSE IF packet.type = DATA /\ InWindow(packet.seq_num, expected_seq_num)
                   THEN SWPReceiver_accept(packet, st0)
                   ELSE st0
    IN /\ buffer' = st.buffer
       /\ expected_seq_num' = st.expected
       /\ ready_data' = st.ready
       /\ anet' = st.net
       /\ r_thread' = st.thread
       /\ last' = [who |-> "receiver", raw |-> raw]

\* a datagram of the sender arrives
SWPReceiver_recv_loop ==
    /\ r_thread = "running"
    /\ \E raw \in dnet :
        /\ SWPReceiver_recv_iter(raw)
        /\ dnet' = dnet \ {raw}
    /\ UNCHANGED <<svars, got, cvars, xvars>>

\* llp's recv() returns None, or hands over a datagram that is no DATA packet
SWPReceiver_recv_other ==
    /\ r_thread = "running"
    /\ \E raw \in {None} \cup Malformed \cup {to_bytes(SWPPacket(ACK, 0, <<>>))} :
        SWPReceiver_recv_iter(raw)
    /\ UNCHANGED dnet
    /\ UNCHANGED <<svars, got, cvars, xvars>>

\* recv, lines 158-159: the application takes the next chunk off the queue
SWPReceiver_recv ==
    /\ ready_data # <<>>
    /\ got' = Append(got, Head(ready_data))
    /\ ready_data' = Tail(ready_data)
    /\ UNCHANGED <<r_thread, expected_seq_num, buffer>>
    /\ UNCHANGED <<svars, nvars, cvars, xvars>>
    /\ last' = NoLast

---------------------------------------------------------------------------
\* llp.LLPEndpoint.send is best effort: a datagram in flight may be lost
LoseData ==
    /\ \E d \in dnet : dnet' = dnet \ {d}
    /\ UNCHANGED <<svars, rvars, anet, cvars, xvars>>
    /\ last' = NoLast

LoseAck ==
    /\ \E d \in anet : anet' = anet \ {d}
    /\ UNCHANGED <<svars, rvars, dnet, cvars, xvars>>
    /\ last' = NoLast

---------------------------------------------------------------------------
\* The program over a transport that loses and reorders datagrams but hands
\* over only datagrams that were sent.
Next ==
    \/ SWPSender_send_full
    \/ SWPSender_send_l75
    \/ SWPSender_send_l92
    \/ \E s \in Seqs : SWPSender_retransmit_l99(s)
    \/ \E s \in Seqs : SWPSender_retransmit_l107(s)
    \/ \E s \in Seqs : SWPSender_retransmit_l108(s)
    \/ SWPSender_recv
    \/ SWPReceiver_recv_loop
    \/ SWPReceiver_recv
    \/ LoseData
    \/ LoseAck

Spec == Init /\ [][Next]_vars

\* The program before any Timer expires, over a transport whose recv() may
\* also return None or a datagram that is no packet of the peer.
FaultNext ==
    \/ SWPSender_send_full
    \/ SWPSender_send_l75
    \/ SWPSender_send_l92
    \/ SWPSender_recv
    \/ SWPSender_recv_other
    \/ SWPReceiver_recv_loop
    \/ SWPReceiver_recv_other
    \/ SWPReceiver_recv

FaultSpec == Init /\ [][FaultNext]_vars

---------------------------------------------------------------------------
\* The program with timers that expire again and again, over a fair transport:
\* a datagram that is in flight infinitely often is handed over infinitely
\* often. Threads that can run do run; the application need not call again.
\* The runs start where all but the last LiveChunks chunks have been sent,
\* acknowledged, delivered and taken by the application.
LiveInit ==
    /\ next_seq_num = MaxChunks - LiveChunks
    /\ a_pc = "l75"
    /\ a_i = MaxChunks - LiveChunks
    /\ a_seq = MaxChunks - LiveChunks - 1
    /\ transmitted = [s \in 0..(MaxChunks - LiveChunks - 1) |-> ChunkData(s)]
    /\ send_buffer = EmptyMap
    /\ timers = EmptyMap
    /\ live = [s \in Seqs |-> 0]
    /\ cb = [s \in Seqs |-> "idle"]
    /\ fires = 0
    /\ s_thread = "running"
    /\ r_thread = "running"
    /\ expected_seq_num = MaxChunks - LiveChunks
    /\ buffer = EmptyMap
    /\ ready_data = <<>>
    /\ got = [k \in 1..(MaxChunks - LiveChunks) |-> ChunkData(k - 1)]
    /\ dnet = {}
    /\ anet = {}
    /\ last = NoLast
    /\ r_pc = "l164" /\ r_pkt = NoPacket /\ accepted = <<>> /\ acks = <<>>
    /\ t_pc = [c \in Contexts |-> "idle"]
    /\ t_seq = [c \in Contexts |-> 0]
    /\ t_tmp = [c \in Contexts |-> 0]
    /\ t_calls = [c \in Contexts |-> 0]
    /\ assigned = <<>>
    /\ Constructed
    /\ c_pkt = NoPacket /\ c_raw = None /\ c_dec = NoPacket

LiveNext ==
    \/ SWPSender_send_l75
    \/ SWPSender_send_l92
    \/ \E s \in Seqs : SWPSender_retransmit_l99_again(s)
    \/ \E s \in Seqs : SWPSender_retransmit_l107(s)
    \/ \E s \in Seqs : SWPSender_retransmit_l108(s)
    \/ SWPSender_recv
    \/ SWPReceiver_recv_loop
    \/ SWPReceiver_recv
    \/ LoseData
    \/ LoseAck

\* the sequence numbers of the chunks still to submit: the only ones that
\* get a timer or a datagram in these runs
LiveSeqs == (MaxChunks - LiveChunks)..(MaxChunks - 1)
\* the datagrams _send builds
DataDatagrams == {to_bytes(SWPPacket(DATA, s, ChunkData(s))) : s \in LiveSeqs}
\* the datagrams _send_ack builds
AckDatagrams == {to_bytes(SWPPacket(ACK, s, <<>>)) : s \in LiveSeqs}

LiveFairness ==
    /\ WF_vars(SWPSender_send_l92)
    /\ \A s \in LiveSeqs : WF_vars(SWPSender_retransmit_l99_again(s))
    /\ \A s \in LiveSeqs : WF_vars(SWPSender_retransmit_l107(s))
    /\ \A s \in LiveSeqs : WF_vars(SWPSender_retransmit_l108(s))
    /\ WF_vars(SWPReceiver_recv)
    /\ \A raw \in DataDatagrams : SF_vars(SWPReceiver_recv_loop /\ last'.raw = raw)
    /\ \A raw \in AckDatagrams : SF_vars(SWPSender_recv /\ last'.raw = raw)

LiveSpec == LiveInit /\ [][LiveNext]_vars /\ LiveFairness

---------------------------------------------------------------------------
\* SWPReceiver._recv statement by statement, fed by a transport that hands over
\* the sender's DATA segments in any order and any number of times.

\* the segments the transport may hand over: window and beyond, and an ACK
RecvArrivals ==
    {to_bytes(SWPPacket(DATA, s, ChunkData(s))) :
        s \in 0..(MaxArrivals + _RECV_WINDOW_SIZE)}
    \cup {to_bytes(SWPPacket(ACK, 0, <<>>))}

\* lines 164-173: receive, decode, check the window, buffer the payload
SWPReceiver_recv_l164 ==
    /\ r_thread = "running" /\ r_pc = "l164"
    /\ Len(accepted) < MaxArrivals
    /\ \E raw \in RecvArrivals :
         LET packet == from_bytes(raw) IN
         /\ last' = [who |-> "receiver", raw |-> raw]
         /\ IF packet.type = DATA /\ InWindow(packet.seq_num, expected_seq_num)
            THEN /\ buffer' = Put(buffer, packet.seq_num, packet.data)
                 /\ r_pkt' = packet
                 /\ accepted' = Append(accepted, packet.seq_num)
                 /\ r_pc' = "l174"
            ELSE UNCHANGED <<buffer, r_pkt, accepted, r_pc>>
    /\ UNCHANGED <<r_thread, expected_seq_num, ready_data, got, acks>>
    /\ UNCHANGED <<svars, nvars, cvars, kvars, ivars>>

\* line 174 acknowledging the cursor, not the segment
SWPReceiver_recv_l174_cursor ==
    /\ r_pc = "l174"
    /\ anet' = SWPReceiver_send_ack(anet, expected_seq_num)
    /\ acks' = Append(acks, to_bytes(SWPPacket(ACK, expected_seq_num, <<>>)))
    /\ r_pc' = "l175"
    /\ UNCHANGED <<rvars, r_pkt, accepted, dnet>>
    /\ UNCHANGED <<svars, cvars, kvars, ivars>>
    /\ last' = NoLast

\* line 174: self._send_ack(seq_num)
SWPReceiver_recv_l174 ==
    /\ r_pc = "l174"
    /\ anet' = SWPReceiver_send_ack(anet, r_pkt.seq_num)
    /\ acks' = Append(acks, to_bytes(SWPPacket(ACK, r_pkt.seq_num, <<>>)))
    /\ r_pc' = "l175"
    /\ UNCHANGED <<rvars, r_pkt, accepted, dnet>>
    /\ UNCHANGED <<svars, cvars, kvars, ivars>>
    /\ last' = NoLast

\* line 175: self._process_buffer()
SWPReceiver_recv_l175 ==
    /\ r_pc = "l175"
    /\ LET st == SWPReceiver_process_buffer(
                    [buffer |-> buffer, expected |-> expected_seq_num,
                     ready |-> ready_data, net |-> anet, thread |-> r_thread])
       IN /\ buffer' = st.buffer
          /\ expected_seq_num' = st.expected
          /\ ready_data' = st.ready
    /\ r_pc' = "l164"
    /\ UNCHANGED <<r_thread, got, r_pkt, accepted, acks>>
    /\ UNCHANGED <<svars, nvars, cvars, kvars, ivars>>
    /\ last' = NoLast

RecvNext ==
    \/ SWPReceiver_recv_l164
    \/ SWPReceiver_recv_l174
    \/ SWPReceiver_recv_l175

RecvSpec == Init /\ [][RecvNext]_vars

---------------------------------------------------------------------------
\* SWPSender._send called from several application contexts at once, statement
\* by statement. No lock is taken, so the statements of two calls interleave.

\* the payload of the k-th call of context c, distinct per call
CtxData(c, k) == <<10 * c + k>>

\* lines 75-76: the window check; a full window ends the call
SWPSender_send_ctx_l75(c) ==
    /\ t_pc[c] = "idle" /\ t_calls[c] < MaxCalls
    /\ IF WindowFull(send_buffer)
       THEN /\ t_calls' = [t_calls EXCEPT ![c] = @ + 1]
            /\ UNCHANGED t_pc
       ELSE /\ t_pc' = [t_pc EXCEPT ![c] = "l79"]
            /\ UNCHANGED t_calls
    /\ UNCHANGED <<t_seq, t_tmp, assigned>>
    /\ UNCHANGED <<svars, rvars, nvars, cvars, pvars, ivars>>
    /\ last' = NoLast

\* line 79: seq_num = self._next_seq_num
SWPSender_send_ctx_l79(c) ==
    /\ t_pc[c] = "l79"
    /\ t_seq' = [t_seq EXCEPT ![c] = next_seq_num]
    /\ assigned' = Append(assigned, <<next_seq_num, CtxData(c, t_calls[c])>>)
    /\ t_pc' = [t_pc EXCEPT ![c] = "l80"]
    /\ UNCHANGED <<t_tmp, t_calls>>
    /\ UNCHANGED <<svars, rvars, nvars, cvars, pvars, ivars>>
    /\ last' = NoLast

\* line 80, self._next_seq_num += 1: the attribute is loaded
SWPSender_send_ctx_l80_load(c) ==
    /\ t_pc[c] = "l80"
    /\ t_tmp' = [t_tmp EXCEPT ![c] = next_seq_num]
    /\ t_pc' = [t_pc EXCEPT ![c] = "l80_store"]
    /\ UNCHANGED <<t_seq, t_calls, assigned>>
    /\ UNCHANGED <<svars, rvars, nvars, cvars, pvars, ivars>>
    /\ last' = NoLast

\* line 80, self._next_seq_num += 1: the sum is stored
SWPSender_send_ctx_l80_store(c) ==
    /\ t_pc[c] = "l80_store"
    /\ next_seq_num' = t_tmp[c] + 1
    /\ t_pc' = [t_pc EXCEPT ![c] = "l83"]
    /\ UNCHANGED <<t_seq, t_tmp, t_calls, assigned>>
    /\ UNCHANGED <<a_pc, a_i, a_seq, transmitted, tvars, cb, fires>>
    /\ UNCHANGED <<rvars, nvars, cvars, pvars, ivars>>
    /\ last' = NoLast

\* lines 83-89: build the packet, enter it in the table, transmit it
SWPSender_send_ctx_l83(c) ==
    /\ t_pc[c] = "l83"
    /\ LET packet == SWPPacket(DATA, t_seq[c], CtxData(c, t_calls[c]))
       IN /\ send_buffer' = Put(send_buffer, t_seq[c], packet)
          /\ dnet' = llp_send(dnet, to_bytes(packet))
          /\ transmitted' = Put(transmitted, t_seq[c], packet.data)
    /\ t_pc' = [t_pc EXCEPT ![c] = "l92"]
    /\ UNCHANGED <<t_seq, t_tmp, t_calls, assigned>>
    /\ UNCHANGED <<next_seq_num, a_pc, a_i, a_seq, timers, live, s_thread, cb, fires>>
    /\ UNCHANGED <<rvars, anet, cvars, pvars, ivars>>
    /\ last' = NoLast

\* lines 92-95: create, start and register the retransmission timer, return
SWPSender_send_ctx_l92(c) ==
    /\ t_pc[c] = "l92"
    /\ live' = [live EXCEPT ![t_seq[c]] = @ + 1]
    /\ timers' = Put(timers, t_seq[c], "armed")
    /\ t_pc' = [t_pc EXCEPT ![c] = "idle"]
    /\ t_calls' = [t_calls EXCEPT ![c] = @ + 1]
    /\ UNCHANGED <<t_seq, t_tmp, assigned>>
    /\ UNCHANGED <<avars, send_buffer, s_thread, cb, fires>>
    /\ UNCHANGED <<rvars, nvars, cvars, pvars, ivars>>
    /\ last' = NoLast

ConcNext ==
    \/ \E c \in Contexts : SWPSender_send_ctx_l75(c)
    \/ \E c \in Contexts : SWPSender_send_ctx_l79(c)
    \/ \E c \in Contexts : SWPSender_send_ctx_l80_load(c)
    \/ \E c \in Contexts : SWPSender_send_ctx_l80_store(c)
    \/ \E c \in Contexts : SWPSender_send_ctx_l83(c)
    \/ \E c \in Contexts : SWPSender_send_ctx_l92(c)

ConcSpec == Init /\ [][ConcNext]_vars

---------------------------------------------------------------------------
\* The constructors, statement by statement. Each starts its receive thread
\* (line 62, line 152) before it sets the attributes the thread reads, and
\* reading an attribute that is not set yet raises AttributeError.

\* lines 57-62: the endpoint is created and the receive thread started
SWPSender_init_l61 ==
    /\ s_ctor = "l61"
    /\ s_ctor' = "l64"
    /\ UNCHANGED <<svars, rvars, nvars, cvars, pvars, kvars, r_ctor>>
    /\ last' = NoLast

\* lines 64-66: _next_seq_num, _send_buffer and _timers are set
SWPSender_init_l64 ==
    /\ s_ctor = "l64"
    /\ next_seq_num' = 0
    /\ send_buffer' = EmptyMap
    /\ timers' = EmptyMap
    /\ s_ctor' = "done"
    /\ UNCHANGED <<a_pc, a_i, a_seq, transmitted, live, s_thread, cb, fires>>
    /\ UNCHANGED <<rvars, nvars, cvars, pvars, kvars, r_ctor>>
    /\ last' = NoLast

\* one iteration of SWPSender._recv before line 65 has run: the transport
\* returns None or hands over a datagram that reached the socket meanwhile
SWPSender_recv_early ==
    /\ s_ctor = "l64" /\ s_thread = "running"
    /\ \E raw \in {None, to_bytes(SWPPacket(ACK, 0, <<>>)),
                   to_bytes(SWPPacket(DATA, 0, <<>>))} :
         /\ s_thread' = IF raw # None /\ from_bytes(raw).type = ACK
                        THEN "AttributeError" ELSE s_thread
         /\ last' = [who |-> "sender", raw |-> raw]
    /\ UNCHANGED <<avars, send_buffer, timers, live, cb, fires>>
    /\ UNCHANGED <<rvars, nvars, cvars, pvars, kvars, ivars>>

\* lines 144-152: endpoint and queue are created, the receive thread started
SWPReceiver_init_l151 ==
    /\ r_ctor = "l151"
    /\ r_ctor' = "l155"
    /\ UNCHANGED <<svars, rvars, nvars, cvars, pvars, kvars, s_ctor>>
    /\ last' = NoLast

\* line 155: _expected_seq_num is set
SWPReceiver_init_l155 ==
    /\ r_ctor = "l155"
    /\ expected_seq_num' = 0
    /\ r_ctor' = "l156"
    /\ UNCHANGED <<r_thread, buffer, ready_data, got>>
    /\ UNCHANGED <<svars, nvars, cvars, pvars, kvars, s_ctor>>
    /\ last' = NoLast

\* line 156: _buffer is set
SWPReceiver_init_l156 ==
    /\ r_ctor = "l156"
    /\ buffer' = EmptyMap
    /\ r_ctor' = "done"
    /\ UNCHANGED <<r_thread, expected_seq_num, ready_data, got>>
    /\ UNCHANGED <<svars, nvars, cvars, pvars, kvars, s_ctor>>
    /\ last' = NoLast

\* one iteration of SWPReceiver._recv before line 156 has run: line 172 reads
\* _expected_seq_num, line 173 reads _buffer
SWPReceiver_recv_early ==
    /\ r_ctor \in {"l155", "l156"} /\ r_thread = "running"
    /\ \E raw \in dnet :
         LET packet == from_bytes(raw) IN
         /\ dnet' = dnet \ {raw}
         /\ r_thread' =
               IF packet.type # DATA THEN r_thread
               ELSE IF r_ctor = "l155" THEN "AttributeError"
               ELSE IF InWindow(packet.seq_num, expected_seq_num)
                    THEN "AttributeError" ELSE r_thread
         /\ last' = [who |-> "receiver", raw |-> raw]
    /\ UNCHANGED <<expected_seq_num, buffer, ready_data, got, anet>>
    /\ UNCHANGED <<svars, cvars, pvars, kvars, ivars>>

\* Before the constructors: nothing is started, nothing is set.
InitInit ==
    /\ ProtocolInit
    /\ s_ctor = "l61"
    /\ r_ctor = "l151"
    /\ c_pkt = NoPacket
    /\ c_raw = None
    /\ c_dec = NoPacket

\* The two constructors run, each endpoint is used once its constructor has
\* returned, and a receive thread runs from the moment it is started.
InitNext ==
    \/ SWPSender_init_l61
    \/ SWPSender_init_l64
    \/ SWPSender_recv_early
    \/ SWPReceiver_init_l151
    \/ SWPReceiver_init_l155
    \/ SWPReceiver_init_l156
    \/ SWPReceiver_recv_early
    \/ s_ctor = "done" /\ SWPSender_send_full
    \/ s_ctor = "done" /\ SWPSender_send_l75
    \/ s_ctor = "done" /\ SWPSender_send_l92
    \/ s_ctor = "done" /\ SWPSender_recv
    \/ r_ctor = "done" /\ SWPReceiver_recv_loop
    \/ r_ctor = "done" /\ SWPReceiver_recv

InitSpec == InitInit /\ [][InitNext]_vars

---------------------------------------------------------------------------
\* The codec alone: a packet is encoded, and the encoding decoded.
CodecBytes == {0, 65, 255}
\* (TLC's integers end at 2^31 - 1)
CodecSeqNums == {0, 1, 255, 256, 65535, 65536, 16777215, 16777216, 305419896,
                 2147483647}

RECURSIVE BytesUpTo(_)
BytesUpTo(n) ==
    IF n = 0 THEN {<<>>}
    ELSE BytesUpTo(n - 1) \cup
         {Append(b, x) : b \in {c \in BytesUpTo(n - 1) : Len(c) = n - 1}, x \in CodecBytes}

CodecInit ==
    /\ ProtocolInit
    /\ Constructed
    /\ c_pkt \in {SWPPacket(type, seq_num, data) :
                    type \in {DATA, ACK}, seq_num \in CodecSeqNums,
                    data \in BytesUpTo(MaxPayloadLen)}
    /\ c_raw = None
    /\ c_dec = NoPacket

Codec_to_bytes ==
    /\ c_raw = None
    /\ c_raw' = to_bytes(c_pkt)
    /\ UNCHANGED <<svars, rvars, nvars, last, c_pkt, c_dec, xvars>>

Codec_from_bytes ==
    /\ c_raw # None /\ c_dec = NoPacket
    /\ c_dec' = from_bytes(c_raw)
    /\ UNCHANGED <<svars, rvars, nvars, last, c_pkt, c_raw, xvars>>

CodecNext == Codec_to_bytes \/ Codec_from_bytes

CodecSpec == CodecInit /\ [][CodecNext]_vars
---------------------------------------------------------------------------
\* What the claims speak of.

\* everything the application was to send
AllData == [k \in 1..MaxChunks |-> ChunkData(k - 1)]
\* the chunks handed to the application so far, in the order of delivery
Delivered == got \o ready_data
Range(f) == {f[x] : x \in DOMAIN f}

\* send() has returned, nothing is outstanding, nothing is in flight and every
\* thread is alive: nothing but a no-op Timer expiry can happen any more
Quiescent ==
    /\ a_pc = "l75" /\ a_i = MaxChunks
    /\ DOMAIN send_buffer = {}
    /\ dnet = {} /\ anet = {}
    /\ s_thread = "running" /\ r_thread = "running"
    /\ \A s \in Seqs : cb[s] = "idle"

\* C1: in-order, exactly-once delivery. Once the sender has nothing left to
\* send or retransmit and no datagram is in flight, the chunks delivered to the
\* application are the chunks the application asked to send, in order.
C1_InOrderExactlyOnce == Quiescent => Delivered = AllData

\* C2: backpressure, not loss. Once send() has returned and the window has
\* emptied, every chunk submitted has been transmitted at least once.
C2_NoChunkDiscarded ==
    (a_pc = "l75" /\ a_i = MaxChunks /\ DOMAIN send_buffer = {})
        => \A c \in Chunks : ChunkData(c) \in Range(transmitted)

\* C3: window bound. The outstanding-window table never holds more than
\* _SEND_WINDOW_SIZE entries.
C3_WindowBound == Cardinality(DOMAIN send_buffer) <= _SEND_WINDOW_SIZE

\* a chunk was submitted while the table held _SEND_WINDOW_SIZE entries
C3_Witness ==
    /\ Cardinality(DOMAIN send_buffer) = _SEND_WINDOW_SIZE
    /\ a_i > Cardinality(DOMAIN transmitted)

\* the sender's receive loop has just handled a well-formed ACK
AckHandled(l) ==
    /\ l.who = "sender" /\ l.raw # None
    /\ from_bytes(l.raw).err = "ok" /\ from_bytes(l.raw).type = ACK

\* C4: cumulative ACK. After the sender's loop has handled an ACK with
\* sequence N, no entry with sequence <= N is in the table, and every entry
\* with sequence > N is still there, unchanged.
C4_CumulativeAck ==
    [][AckHandled(last') =>
         LET N == from_bytes(last'.raw).seq_num IN
         /\ \A s \in DOMAIN send_buffer' : s > N
         /\ \A s \in DOMAIN send_buffer :
               s > N => s \in DOMAIN send_buffer' /\ send_buffer'[s] = send_buffer[s]
      ]_vars

\* C5: receiver ordered delivery. The k-th chunk delivered is the payload of
\* the segment numbered k - 1, whatever the order of arrival; as many chunks
\* are delivered as the cursor has advanced, and recv() returns them in order.
C5_OrderedDelivery ==
    /\ Len(Delivered) = expected_seq_num
    /\ \A k \in 1..Len(Delivered) :
          (k - 1) \in DOMAIN transmitted /\ Delivered[k] = transmitted[k - 1]
    /\ \A k \in 1..Len(got) : got[k] = transmitted[k - 1]

\* segment 1 arrived before segment 0: handling segment 0 delivered both
C5_Witness ==
    /\ last.who = "receiver"
    /\ last.raw # None /\ from_bytes(last.raw).seq_num = 0
    /\ 1 \in DOMAIN transmitted
    /\ ready_data = <<transmitted[0], transmitted[1]>>

\* the receiver's loop has just handled a DATA segment that lies outside the
\* window that starts at expected
OutOfWindowHandled(l, expected) ==
    /\ l.who = "receiver" /\ l.raw # None
    /\ from_bytes(l.raw).err = "ok" /\ from_bytes(l.raw).type = DATA
    /\ \/ from_bytes(l.raw).seq_num < expected
       \/ from_bytes(l.raw).seq_num >= expected + _RECV_WINDOW_SIZE

\* C6: out-of-window discard. A DATA segment outside the receive window sends
\* no ACK and leaves the reorder buffer, the cursor and the queue unchanged.
C6_OutOfWindowDiscard ==
    [][OutOfWindowHandled(last', expected_seq_num) =>
         UNCHANGED <<buffer, expected_seq_num, ready_data, anet>>]_vars

\* a segment beyond the window has been handled
C6_Witness ==
    /\ OutOfWindowHandled(last, expected_seq_num)
    /\ from_bytes(last.raw).seq_num >= expected_seq_num + _RECV_WINDOW_SIZE

\* a Timer of s is pending, or the code is between the transmission of s and
\* the start of the Timer that follows it
RetransmissionPending(s) ==
    \/ live[s] = 1 /\ cb[s] = "idle"
    \/ cb[s] = "l107" /\ s \in DOMAIN timers
    \/ cb[s] = "l108"
    \/ a_pc = "l92" /\ a_seq = s

\* C7: retransmission cadence. Every outstanding segment has a retransmission
\* coming: its Timer is pending or about to be started; and no segment has
\* more than one Timer pending.
C7_RetransmissionCadence ==
    /\ \A s \in DOMAIN send_buffer : RetransmissionPending(s)
    /\ \A s \in Seqs : live[s] <= 1

\* the only segment sent was retransmitted once and its new Timer is pending
C7_Witness ==
    /\ next_seq_num = 1 /\ DOMAIN send_buffer = {0}
    /\ fires = 1 /\ cb[0] = "idle"
    /\ live[0] = 1 /\ timers[0] = "armed"

\* the protocol state of both endpoints
ProtocolState ==
    <<next_seq_num, send_buffer, timers, live, expected_seq_num, buffer, ready_data,
      dnet, anet>>

\* the receive loop that has just handled a datagram is still running
StillRunning(l, sender, receiver) ==
    /\ l.who = "sender" => sender = "running"
    /\ l.who = "receiver" => receiver = "running"

\* C8: the "no data" sentinel is never fatal. A receive loop that gets None
\* leaves the protocol state unchanged and keeps running.
C8_NoneIsIgnored ==
    [][(last'.who # "none" /\ last'.raw = None) =>
         /\ UNCHANGED ProtocolState
         /\ StillRunning(last', s_thread', r_thread')]_vars

\* a datagram shorter than the header or with an unrecognized kind byte
IsMalformed(raw) ==
    raw # None /\ (Len(raw) < 5 \/ raw[1] \notin {68, 65})

\* C9: malformed datagrams are discarded, not fatal. A receive loop that gets
\* a malformed datagram leaves the protocol state unchanged and keeps running.
C9_MalformedIsDiscarded ==
    [][(last'.who # "none" /\ IsMalformed(last'.raw)) =>
         /\ UNCHANGED ProtocolState
         /\ StillRunning(last', s_thread', r_thread')]_vars

\* C10: codec round trip. The encoding is the kind byte, the sequence number
\* in four bytes, most significant first, then the payload; decoding it gives
\* the packet back.
C10_RoundTrip ==
    /\ c_raw # None =>
          /\ Len(c_raw) = 5 + Len(c_pkt.data)
          /\ c_raw[1] = c_pkt.type
          /\ \A i \in 2..5 : c_raw[i] \in 0..255
          /\ c_raw[2] = c_pkt.seq_num \div 16777216
          /\ c_pkt.seq_num = ((c_raw[2] * 256 + c_raw[3]) * 256 + c_raw[4]) * 256 + c_raw[5]
          /\ \A i \in 1..Len(c_pkt.data) : c_raw[5 + i] = c_pkt.data[i]
    /\ c_dec # NoPacket => c_dec = c_pkt

\* a DATA packet with a payload and a sequence number that fills four bytes
\* has been encoded and decoded
C10_Witness ==
    /\ c_dec # NoPacket
    /\ c_pkt.type = DATA /\ c_pkt.seq_num = 305419896 /\ Len(c_pkt.data) = MaxPayloadLen

---------------------------------------------------------------------------
\* the receiver has accepted segment s: it is buffered or was delivered
Received(s) == s < expected_seq_num \/ s \in DOMAIN buffer

\* C11: an acknowledgment only covers received data. Every entry the sender's
\* loop removes when it handles an ACK is a segment the receiver has accepted.
C11_AckCoversReceived ==
    [][AckHandled(last') =>
         \A s \in DOMAIN send_buffer \ DOMAIN send_buffer' : Received(s)]_vars

\* C12: the timer lifecycle is atomic with the table. No step looks up
\* self._timers[seq_num] and finds the key missing: neither the ACK loop
\* (line 134) nor a callback that saw seq_num in the table (line 107).
C12_NoMissingTimer ==
    /\ s_thread # "KeyError"
    /\ \A s \in Seqs : cb[s] # "KeyError"

\* the Timer registered for s is armed, and it is the only one pending
OneLiveTimer(s) ==
    /\ s \in DOMAIN timers /\ timers[s] = "armed"
    /\ live[s] = 1

\* C13: every sequence number in the outstanding-window table has exactly one
\* live retransmission timer registered for it.
C13_ExactlyOneLiveTimer == \A s \in DOMAIN send_buffer : OneLiveTimer(s)

\* the packet _send built for s
Original(s) == SWPPacket(DATA, s, transmitted[s])

\* the Timer of s has just expired and _retransmit(s) found s in the table
ExpiredPresent(s) == fires' = fires + 1 /\ cb[s] = "idle" /\ cb'[s] = "l107"
\* a Timer has just expired and _retransmit found its seq_num gone
ExpiredAbsent == fires' = fires + 1 /\ cb' = cb

\* C14: timer expiry for s. With s in the table, the datagram handed to the
\* transport is the original segment of s and the callback goes on to arm a
\* fresh timer; with s gone, nothing is sent, no timer is armed and the
\* sender's state stays as it is.
C14_TimerExpiry ==
    [][/\ \A s \in Seqs :
            /\ ExpiredPresent(s) =>
                  /\ s \in DOMAIN transmitted
                  /\ send_buffer[s] = Original(s)
                  /\ dnet' = llp_send(dnet, to_bytes(Original(s)))
            /\ cb[s] = "l107" /\ cb'[s] # "l107" => cb'[s] = "l108"
            /\ cb[s] = "l108" /\ cb'[s] # "l108" =>
                  /\ timers'[s] = "armed" /\ live'[s] = live[s] + 1
       /\ ExpiredAbsent =>
            /\ UNCHANGED <<next_seq_num, send_buffer, dnet, anet>>
            /\ DOMAIN timers' = DOMAIN timers
            /\ \A s \in Seqs : live'[s] <= live[s]
      ]_vars

\* C19: no stale timers. Every sequence number with a registered timer is in
\* the outstanding-window table, and no timer is pending for a sequence
\* number the ACK loop has removed.
C19_NoStaleTimer ==
    /\ DOMAIN timers \subseteq DOMAIN send_buffer
    /\ \A s \in Seqs :
          (s \in DOMAIN transmitted /\ s \notin DOMAIN send_buffer) => live[s] = 0

\* the sequence fields of the ACK datagrams sent so far, in order
AckSeqNums == [k \in 1..Len(acks) |-> from_bytes(acks[k]).seq_num]
\* s without its last element
Front(s) == SubSeq(s, 1, Len(s) - 1)

\* C15: per-segment acknowledgment and step order. Every segment that passes
\* the window check is acknowledged once, with its own sequence number, after
\* its payload is buffered and before reassembly: the ACK values sent are the
\* accepted arrivals in order, duplicates included.
C15_PerSegmentAck ==
    /\ \A k \in 1..Len(acks) : from_bytes(acks[k]).type = ACK
    /\ r_pc = "l164" => AckSeqNums = accepted
    /\ r_pc = "l174" =>
          /\ AckSeqNums = Front(accepted)
          /\ r_pkt.seq_num \in DOMAIN buffer
    /\ r_pc = "l175" =>
          /\ AckSeqNums = accepted
          /\ r_pkt.seq_num \in DOMAIN buffer
          /\ r_pkt.seq_num >= expected_seq_num
          /\ buffer[r_pkt.seq_num] \notin Range(ready_data)

\* segment 1 arrived twice, then segment 0: three ACKs echoing 1, 1, 0 and
\* the queue holds chunk 0 before chunk 1
C15_Witness ==
    /\ r_pc = "l164"
    /\ accepted = <<1, 1, 0>>
    /\ AckSeqNums = <<1, 1, 0>>
    /\ ready_data = <<ChunkData(0), ChunkData(1)>>

\* C16: reorder-buffer range. Every key of the reorder buffer lies in
\* [expected_seq_num, expected_seq_num + _RECV_WINDOW_SIZE), and between the
\* handling of two segments expected_seq_num is not a key.
C16_BufferRange ==
    /\ \A k \in DOMAIN buffer :
          expected_seq_num <= k /\ k < expected_seq_num + _RECV_WINDOW_SIZE
    /\ r_pc = "l164" => expected_seq_num \notin DOMAIN buffer

\* the cursor has advanced, the handling is over and the buffer holds the
\* last number of the window
C16_Witness ==
    /\ r_pc = "l164"
    /\ expected_seq_num > 0
    /\ expected_seq_num + _RECV_WINDOW_SIZE - 1 \in DOMAIN buffer

\* C17: sequence number assignment. The n-th segment accepted for
\* transmission carries sequence number n - 1, no two segments carry the same
\* number and no number goes with two payloads, whichever contexts call send.
C17_SeqNumAssignment ==
    /\ \A n \in 1..Len(assigned) : assigned[n][1] = n - 1
    /\ \A m, n \in 1..Len(assigned) :
          assigned[m][1] = assigned[n][1] => m = n /\ assigned[m][2] = assigned[n][2]

\* C18: sender quiescence. Over a fair transport every segment that enters
\* the outstanding-window table is removed from it in the end.
C18_SenderQuiescence ==
    \A s \in LiveSeqs : (s \in DOMAIN send_buffer) ~> (s \notin DOMAIN send_buffer)

\* C20: initialization order. No receive loop reads protocol state that its
\* constructor has not set yet: neither thread ends with AttributeError.
C20_InitializedBeforeRead ==
    /\ s_thread # "AttributeError"
    /\ r_thread # "AttributeError"

=============================================================================
